---- MODULE Spec2Model ----
(***************************************************************************)
(* Model of the CSV-to-JSON tools (csv_json_converter/tools.py), the       *)
(* simple agent and its query router (csv_json_converter/agent.py) and the *)
(* prompt loader (promote_loader.py).                                      *)
(*                                                                         *)
(* Text is a sequence of one-character strings.  Python values are tagged  *)
(* records: PyNone, PyStr(chars), PyList(items), PyDict(items) where the   *)
(* items of a dict are <<key, value>> pairs in insertion order.            *)
(***************************************************************************)
EXTENDS FiniteSets, Integers, Sequences, TLC

(***************************************************************************)
(* Bounds                                                                  *)
(***************************************************************************)
\* longest input text enumerated for the CSV tools and the router
MaxLen == 5

(***************************************************************************)
(* Python values                                                           *)
(***************************************************************************)
PyNone == [t |-> "none"]
PyStr(s) == [t |-> "str", s |-> s]
PyList(l) == [t |-> "list", l |-> l]
PyInt(n) == [t |-> "int", n |-> n]
PyDict(items) == [t |-> "dict", items |-> items]

\* the text of a TLA+ digit sequence for a natural number (str(i))
RECURSIVE IntToStr(_)
IntToStr(n) ==
    LET d == <<"0", "1", "2", "3", "4", "5", "6", "7", "8", "9">>[(n % 10) + 1]
    IN IF n < 10 THEN <<d>> ELSE Append(IntToStr(n \div 10), d)

\* d[k] = v on an insertion-ordered dict: an existing key keeps its place
RECURSIVE DictSet(_, _, _)
DictSet(items, k, v) ==
    IF items = <<>> THEN << <<k, v>> >>
    ELSE IF Head(items)[1] = k THEN << <<k, v>> >> \o Tail(items)
    ELSE <<Head(items)>> \o DictSet(Tail(items), k, v)

\* list(d.keys())
DictKeys(items) == [i \in 1..Len(items) |-> items[i][1]]

(***************************************************************************)
(* io.StringIO iteration: lines end after each "\n" (no newline            *)
(* translation), the last line may lack one.                               *)
(***************************************************************************)
RECURSIVE SplitLines(_, _)
SplitLines(text, cur) ==
    IF text = <<>> THEN (IF cur = <<>> THEN <<>> ELSE <<cur>>)
    ELSE IF Head(text) = "\n" THEN <<Append(cur, "\n")>> \o SplitLines(Tail(text), <<>>)
    ELSE SplitLines(Tail(text), Append(cur, Head(text)))

(***************************************************************************)
(* csv.reader with the default (excel) dialect: delimiter ",", quotechar   *)
(* '"', doublequote, no escapechar, not strict.                            *)
(***************************************************************************)
EOL == "EOL"
IsNL(c) == c = "\n" \/ c = "\r"

parse_reset == [state |-> "START_RECORD", field |-> <<>>, fields |-> <<>>, err |-> FALSE]
parse_save_field(st) == [st EXCEPT !.fields = Append(st.fields, st.field), !.field = <<>>]
parse_add_char(st, c) == [st EXCEPT !.field = Append(st.field, c)]

StartField(st, c) ==
    IF IsNL(c) \/ c = EOL
    THEN [parse_save_field(st) EXCEPT !.state = IF c = EOL THEN "START_RECORD" ELSE "EAT_CRNL"]
    ELSE IF c = "\"" THEN [st EXCEPT !.state = "IN_QUOTED_FIELD"]
    ELSE IF c = "," THEN [parse_save_field(st) EXCEPT !.state = "START_FIELD"]
    ELSE [parse_add_char(st, c) EXCEPT !.state = "IN_FIELD"]

parse_process_char(st, c) ==
    CASE st.state = "START_RECORD" ->
           IF c = EOL THEN st
           ELSE IF IsNL(c) THEN [st EXCEPT !.state = "EAT_CRNL"]
           ELSE StartField(st, c)
      [] st.state = "START_FIELD" -> StartField(st, c)
      [] st.state = "IN_FIELD" ->
           IF IsNL(c) \/ c = EOL
           THEN [parse_save_field(st) EXCEPT !.state = IF c = EOL THEN "START_RECORD" ELSE "EAT_CRNL"]
           ELSE IF c = "," THEN [parse_save_field(st) EXCEPT !.state = "START_FIELD"]
           ELSE parse_add_char(st, c)
      [] st.state = "IN_QUOTED_FIELD" ->
           IF c = EOL THEN st
           ELSE IF c = "\"" THEN [st EXCEPT !.state = "QUOTE_IN_QUOTED_FIELD"]
           ELSE parse_add_char(st, c)
      [] st.state = "QUOTE_IN_QUOTED_FIELD" ->
           IF c = "\"" THEN [parse_add_char(st, c) EXCEPT !.state = "IN_QUOTED_FIELD"]
           ELSE IF c = "," THEN [parse_save_field(st) EXCEPT !.state = "START_FIELD"]
           ELSE IF IsNL(c) \/ c = EOL
           THEN [parse_save_field(st) EXCEPT !.state = IF c = EOL THEN "START_RECORD" ELSE "EAT_CRNL"]
           ELSE [parse_add_char(st, c) EXCEPT !.state = "IN_FIELD"]
      [] st.state = "EAT_CRNL" ->
           IF IsNL(c) THEN st
           ELSE IF c = EOL THEN [st EXCEPT !.state = "START_RECORD"]
           ELSE [st EXCEPT !.err = TRUE]

\* the characters of one line, then the end-of-line marker
RECURSIVE ProcessLine(_, _)
ProcessLine(st, line) ==
    IF st.err THEN st
    ELSE IF line = <<>> THEN parse_process_char(st, EOL)
    ELSE ProcessLine(parse_process_char(st, Head(line)), Tail(line))

\* Reader_iternext: one record from the lines at index k on.
\* Result: stop (StopIteration), err (csv.Error), fields, next (line index).
RECURSIVE ReaderLoop(_, _, _)
\* after line k left the parser in state st2: the record is complete, the
\* line raised csv.Error, or the record goes on in the next line
AfterLine(lines, k, st2) ==
    IF st2.err THEN [stop |-> FALSE, err |-> TRUE, fields |-> <<>>, next |-> k + 1]
    ELSE IF st2.state # "START_RECORD" THEN ReaderLoop(lines, k + 1, st2)
    ELSE [stop |-> FALSE, err |-> FALSE, fields |-> st2.fields, next |-> k + 1]

ReaderLoop(lines, k, st) ==
    IF k > Len(lines)
    THEN IF st.field # <<>> \/ st.state = "IN_QUOTED_FIELD"
         THEN [stop |-> FALSE, err |-> FALSE, fields |-> parse_save_field(st).fields, next |-> k]
         ELSE [stop |-> TRUE, err |-> FALSE, fields |-> <<>>, next |-> k]
    ELSE AfterLine(lines, k, ProcessLine(st, lines[k]))

Reader_iternext(lines, k) == ReaderLoop(lines, k, parse_reset)

\* list(csv.reader(io.StringIO(text))): every record, or the csv.Error
RECURSIVE ReaderRows(_, _)
\* a record in front of the records that follow it, unless those raised
ConsRow(fields, rest) ==
    IF rest.err THEN rest ELSE [err |-> FALSE, rows |-> <<fields>> \o rest.rows]

RowsFrom(lines, r) ==
    IF r.err THEN [err |-> TRUE, rows |-> <<>>]
    ELSE IF r.stop THEN [err |-> FALSE, rows |-> <<>>]
    ELSE ConsRow(r.fields, ReaderRows(lines, r.next))

ReaderRows(lines, k) == RowsFrom(lines, Reader_iternext(lines, k))

(***************************************************************************)
(* csv.DictReader: fieldnames is the first record the reader yields (also  *)
(* when that record is the empty list of a blank line); later empty        *)
(* records are skipped; restkey = None, restval = None.                    *)
(***************************************************************************)
RECURSIVE ZipDict(_, _, _)
ZipDict(fieldnames, row, d) ==
    IF fieldnames = <<>> \/ row = <<>> THEN d
    ELSE ZipDict(Tail(fieldnames), Tail(row), DictSet(d, PyStr(Head(fieldnames)), PyStr(Head(row))))

RECURSIVE RestVal(_, _)
RestVal(keys, d) ==
    IF keys = <<>> THEN d
    ELSE RestVal(Tail(keys), DictSet(d, PyStr(Head(keys)), PyNone))

\* d is dict(zip(fieldnames, row)); lf and lr are the two lengths
RestOfRow(fieldnames, row, d, lf, lr) ==
    IF lf < lr
    THEN PyDict(DictSet(d, PyNone, PyList([i \in 1..(lr - lf) |-> PyStr(row[lf + i])])))
    ELSE IF lf > lr
    THEN PyDict(RestVal(SubSeq(fieldnames, lr + 1, lf), d))
    ELSE PyDict(d)

DictRow(fieldnames, row) ==
    RestOfRow(fieldnames, row, ZipDict(fieldnames, row, <<>>), Len(fieldnames), Len(row))

RECURSIVE DictRows(_, _)
DictRows(fieldnames, rows) ==
    IF rows = <<>> THEN <<>>
    ELSE IF Head(rows) = <<>> THEN DictRows(fieldnames, Tail(rows))
    ELSE <<DictRow(fieldnames, Head(rows))>> \o DictRows(fieldnames, Tail(rows))

\* list(csv.DictReader(io.StringIO(csv_content)))
\* r is what the underlying csv.reader yields
DictReaderOn(r) ==
    IF r.err THEN [err |-> TRUE, rows |-> <<>>]
    ELSE IF r.rows = <<>> THEN [err |-> FALSE, rows |-> <<>>]
    ELSE [err |-> FALSE, rows |-> DictRows(Head(r.rows), Tail(r.rows))]

DictReader(csv_content) == DictReaderOn(ReaderRows(SplitLines(csv_content, <<>>), 1))

(***************************************************************************)
(* json.dumps(obj, indent=2) with the default separators and ensure_ascii. *)
(* A text is a sequence of string pieces whose concatenation is the Python *)
(* string; data-derived text is one character per piece.                   *)
(***************************************************************************)
\* py_encode_basestring_ascii for one character of the modelled alphabet
EscapeChar(c) ==
    CASE c = "\"" -> <<"\\", "\"">>
      [] c = "\\" -> <<"\\", "\\">>
      [] c = "\n" -> <<"\\", "n">>
      [] c = "\r" -> <<"\\", "r">>
      [] OTHER -> <<c>>

RECURSIVE EscapeStr(_)
EscapeStr(s) == IF s = <<>> THEN <<>> ELSE EscapeChar(Head(s)) \o EscapeStr(Tail(s))

JsonStr(s) == <<"\"">> \o EscapeStr(s) \o <<"\"">>

\* "\n" followed by two spaces per nesting level
NewlineIndent(level) == <<"\n">> \o [i \in 1..(2 * level) |-> " "]

\* a dict key as json encodes it: None becomes "null"
JsonKey(k) == IF k = PyNone THEN JsonStr(<<"n", "u", "l", "l">>) ELSE JsonStr(k.s)

RECURSIVE JsonValue(_, _)
RECURSIVE JsonItems(_, _, _)
JsonItems(items, level, isDict) ==
    (IF isDict THEN JsonKey(Head(items)[1]) \o <<":", " ">> \o JsonValue(Head(items)[2], level)
     ELSE JsonValue(Head(items), level))
    \o (IF Len(items) = 1 THEN <<>>
        ELSE <<",">> \o NewlineIndent(level) \o JsonItems(Tail(items), level, isDict))

JsonValue(v, level) ==
    CASE v.t = "none" -> <<"n", "u", "l", "l">>
      [] v.t = "str" -> JsonStr(v.s)
      [] v.t = "list" ->
           IF v.l = <<>> THEN <<"[", "]">>
           ELSE <<"[">> \o NewlineIndent(level + 1) \o JsonItems(v.l, level + 1, FALSE)
                \o NewlineIndent(level) \o <<"]">>
      [] v.t = "dict" ->
           IF v.items = <<>> THEN <<"{", "}">>
           ELSE <<"{">> \o NewlineIndent(level + 1) \o JsonItems(v.items, level + 1, TRUE)
                \o NewlineIndent(level) \o <<"}">>

json_dumps(v) == JsonValue(v, 0)

(***************************************************************************)
(* json.loads, for the documents json.dumps writes of these payloads:      *)
(* null, strings with their escapes, arrays and objects.  A position is    *)
(* an index into the text; a parse returns the value and the position      *)
(* after it.  A repeated object key keeps its first place and its last     *)
(* value, as a Python dict does.                                           *)
(***************************************************************************)
JsonWhitespace == {" ", "\n", "\r", "\t"}

RECURSIVE SkipWhitespace(_, _)
SkipWhitespace(t, i) ==
    IF i <= Len(t) /\ t[i] \in JsonWhitespace THEN SkipWhitespace(t, i + 1) ELSE i

\* the character the escape \c stands for
Unescape(c) ==
    CASE c = "n" -> "\n"
      [] c = "r" -> "\r"
      [] c = "t" -> "\t"
      [] c = "f" -> "\f"
      [] OTHER -> c

\* the string whose opening quote is just before position i
RECURSIVE ScanString(_, _, _)
ScanString(t, i, acc) ==
    IF t[i] = "\"" THEN [v |-> PyStr(acc), pos |-> i + 1]
    ELSE IF t[i] = "\\" THEN ScanString(t, i + 2, Append(acc, Unescape(t[i + 1])))
    ELSE ScanString(t, i + 1, Append(acc, t[i]))

RECURSIVE ParseValue(_, _)
RECURSIVE ParseElements(_, _, _)
RECURSIVE ParseMembers(_, _, _)

\* after an array element: "," and the next element, or the closing "]"
ElementsNext(t, acc, j) ==
    IF t[j] = "," THEN ParseElements(t, SkipWhitespace(t, j + 1), acc)
    ELSE [v |-> PyList(acc), pos |-> j + 1]
AfterElement(t, acc, e) == ElementsNext(t, Append(acc, e.v), SkipWhitespace(t, e.pos))
ParseElements(t, i, acc) == AfterElement(t, acc, ParseValue(t, i))
ArrayFrom(t, j) ==
    IF t[j] = "]" THEN [v |-> PyList(<<>>), pos |-> j + 1] ELSE ParseElements(t, j, <<>>)

\* after an object member: "," and the next member, or the closing "}"
MembersNext(t, acc, j) ==
    IF t[j] = "," THEN ParseMembers(t, SkipWhitespace(t, j + 1), acc)
    ELSE [v |-> PyDict(acc), pos |-> j + 1]
AfterMember(t, acc, k, e) == MembersNext(t, DictSet(acc, k.v, e.v), SkipWhitespace(t, e.pos))
\* the key k is read: skip the ":" and read the member's value
AfterKey(t, acc, k) ==
    AfterMember(t, acc, k, ParseValue(t, SkipWhitespace(t, SkipWhitespace(t, k.pos) + 1)))
ParseMembers(t, i, acc) == AfterKey(t, acc, ScanString(t, i + 1, <<>>))
ObjectFrom(t, j) ==
    IF t[j] = "}" THEN [v |-> PyDict(<<>>), pos |-> j + 1] ELSE ParseMembers(t, j, <<>>)

ParseValue(t, i) ==
    CASE t[i] = "\"" -> ScanString(t, i + 1, <<>>)
      [] t[i] = "n" -> [v |-> PyNone, pos |-> i + 4]
      [] t[i] = "[" -> ArrayFrom(t, SkipWhitespace(t, i + 1))
      [] t[i] = "{" -> ObjectFrom(t, SkipWhitespace(t, i + 1))

json_loads(s) == ParseValue(s, SkipWhitespace(s, 1)).v

(***************************************************************************)
(* csv_json_converter/tools.py                                             *)
(***************************************************************************)
\* str(e) of the only csv.Error the default dialect raises on this alphabet
CsvErrorText == "new-line character seen in unquoted field - do you need to open the file in universal-newline mode?"

\* the object payload with the rows in reverse order
RowObject_reversed(rows) ==
    PyDict([i \in 1..Len(rows) |->
               <<PyStr(<<"r", "o", "w", "_">> \o IntToStr(i)), rows[Len(rows) + 1 - i]>>])

\* the object payload with keys numbered from 0: f"row_{i}"
RowObject_zero_based(rows) ==
    PyDict([i \in 1..Len(rows) |-> <<PyStr(<<"r", "o", "w", "_">> \o IntToStr(i - 1)), rows[i]>>])

\* {f"row_{i+1}": row for i, row in enumerate(rows)}
RowObject(rows) ==
    PyDict([i \in 1..Len(rows) |-> <<PyStr(<<"r", "o", "w", "_">> \o IntToStr(i)), rows[i]>>])

\* the success result with a record_count that counts the header line too
ConversionOf_counts_header(rows, json_data, fmt) ==
    [success |-> TRUE, json_output |-> json_data, json_string |-> json_dumps(json_data),
     record_count |-> Len(rows) + 1,
     columns |-> IF rows # <<>> THEN DictKeys(rows[1].items) ELSE <<>>,
     format |-> fmt]

\* the success result (lines 29-36) for the rows and the payload built of them
ConversionOf(rows, json_data, fmt) ==
    [success |-> TRUE, json_output |-> json_data, json_string |-> json_dumps(json_data),
     record_count |-> Len(rows),
     columns |-> IF rows # <<>> THEN DictKeys(rows[1].items) ELSE <<>>,
     format |-> fmt]

\* csv_to_json without the "if not rows" test
csv_to_json_no_empty_test(r, fmt) ==
    IF r.err
    THEN [success |-> FALSE, error |-> <<"CSV parsing error: ", CsvErrorText>>,
          json_output |-> PyNone, record_count |-> 0]
    ELSE ConversionOf(r.rows, IF fmt = "object" THEN RowObject(r.rows) ELSE PyList(r.rows), fmt)

\* csv_to_json without its except clause: the parser's exception reaches the caller
csv_to_json_uncaught(r, fmt) ==
    IF r.err
    THEN [raised |-> TRUE, exc |-> "Error"]
    ELSE IF r.rows = <<>>
    THEN [success |-> FALSE, error |-> <<"No data found in CSV">>,
          json_output |-> PyNone, record_count |-> 0]
    ELSE ConversionOf(r.rows, IF fmt = "object" THEN RowObject(r.rows) ELSE PyList(r.rows), fmt)

\* the body of csv_to_json; r is list(csv.DictReader(...)) or its exception
csv_to_json_on(r, fmt) ==
    IF r.err
    THEN [success |-> FALSE, error |-> <<"CSV parsing error: ", CsvErrorText>>,
          json_output |-> PyNone, record_count |-> 0]
    ELSE IF r.rows = <<>>
    THEN [success |-> FALSE, error |-> <<"No data found in CSV">>,
          json_output |-> PyNone, record_count |-> 0]
    ELSE ConversionOf(r.rows, IF fmt = "object" THEN RowObject(r.rows) ELSE PyList(r.rows), fmt)

csv_to_json_result(csv_content, fmt) == csv_to_json_on(DictReader(csv_content), fmt)

\* the success result (lines 55-63) for the rows and the first row's keys
AnalysisOf(rows, columns) ==
    [success |-> TRUE, total_rows |-> Len(rows), total_columns |-> Len(columns),
     columns |-> columns, first_row |-> rows[1]]

\* analyze_csv without the "if not rows" test
analyze_csv_no_empty_test(r) ==
    IF r.err
    THEN [success |-> FALSE, error |-> <<"CSV analysis error: ", CsvErrorText>>]
    ELSE [success |-> TRUE, total_rows |-> Len(r.rows),
          total_columns |-> IF r.rows # <<>> THEN Len(DictKeys(r.rows[1].items)) ELSE 0,
          columns |-> IF r.rows # <<>> THEN DictKeys(r.rows[1].items) ELSE <<>>,
          first_row |-> IF r.rows # <<>> THEN r.rows[1] ELSE PyNone]

\* the body of analyze_csv; r is list(csv.DictReader(...)) or its exception
analyze_csv_on(r) ==
    IF r.err
    THEN [success |-> FALSE, error |-> <<"CSV analysis error: ", CsvErrorText>>]
    ELSE IF r.rows = <<>>
    THEN [success |-> FALSE, error |-> <<"No data found in CSV">>]
    ELSE AnalysisOf(r.rows, DictKeys(r.rows[1].items))

analyze_csv_result(csv_content) == analyze_csv_on(DictReader(csv_content))

(***************************************************************************)
(* csv_json_converter/agent.py                                             *)
(***************************************************************************)
\* the body of csv_to_json_simple; r is list(csv.DictReader(...)) or its
\* exception
csv_to_json_simple_on(r) ==
    IF r.err
    THEN [success |-> FALSE, error |-> <<CsvErrorText>>]
    ELSE [success |-> TRUE, json_output |-> PyList(r.rows),
          json_string |-> json_dumps(PyList(r.rows)),
          record_count |-> Len(r.rows),
          columns |-> IF r.rows # <<>> THEN DictKeys(r.rows[1].items) ELSE <<>>]

csv_to_json_simple_result(csv_content) == csv_to_json_simple_on(DictReader(csv_content))

\* analyze_csv_simple with a row count that counts the header line too
analyze_csv_simple_counts_header(r) ==
    IF r.err
    THEN [success |-> FALSE, error |-> <<CsvErrorText>>]
    ELSE [success |-> TRUE, total_rows |-> Len(r.rows) + 1,
          columns |-> IF r.rows # <<>> THEN DictKeys(r.rows[1].items) ELSE <<>>]

\* the body of analyze_csv_simple
analyze_csv_simple_on(r) ==
    IF r.err
    THEN [success |-> FALSE, error |-> <<CsvErrorText>>]
    ELSE [success |-> TRUE, total_rows |-> Len(r.rows),
          columns |-> IF r.rows # <<>> THEN DictKeys(r.rows[1].items) ELSE <<>>]

analyze_csv_simple_result(csv_content) == analyze_csv_simple_on(DictReader(csv_content))

\* c in text
HasChar(text, c) == \E i \in 1..Len(text) : text[i] = c

\* str.lower() on ASCII letters
UpperLetters == <<"A", "B", "C", "D", "E", "F", "G", "H", "I", "J", "K", "L", "M",
                  "N", "O", "P", "Q", "R", "S", "T", "U", "V", "W", "X", "Y", "Z">>
LowerLetters == <<"a", "b", "c", "d", "e", "f", "g", "h", "i", "j", "k", "l", "m",
                  "n", "o", "p", "q", "r", "s", "t", "u", "v", "w", "x", "y", "z">>
LowerChar(c) ==
    IF \E i \in 1..26 : UpperLetters[i] = c
    THEN LowerLetters[CHOOSE i \in 1..26 : UpperLetters[i] = c]
    ELSE c
Lower(text) == [i \in 1..Len(text) |-> LowerChar(text[i])]

\* word in text (substring)
Contains(text, word) ==
    \E i \in 1..(Len(text) - Len(word) + 1) : SubSeq(text, i, i + Len(word) - 1) = word

Keywords == {<<"h", "e", "l", "l", "o">>, <<"h", "i">>, <<"h", "e", "l", "p">>}

\* ', '.join(columns): TypeError when an item is not a str
JoinRaises(columns) == \E i \in 1..Len(columns) : columns[i].t # "str"
RECURSIVE Join(_)
Join(columns) ==
    IF columns = <<>> THEN <<>>
    ELSE IF Len(columns) = 1 THEN columns[1].s
    ELSE columns[1].s \o <<",", " ">> \o Join(Tail(columns))

Greeting == <<"Hello! Send me CSV data to convert to JSON!">>
HelpText == <<"Hello! I'm the CSV to JSON Converter!\n\nHow to use:\n1. Paste your CSV data directly\n2. I'll convert it to JSON format\n3. Get clean, formatted results\n\nExample CSV:\nname,age,city\nJohn,25,NYC\nJane,30,LA\n\nJust paste your CSV data and I'll handle the rest!">>
GenericText == <<"Please paste CSV data with column headers and comma-separated values.">>

\* the piece standing for the three-backquote fence of the report (a TLA+
\* string cannot hold a backquote)
CodeFence == "<3 backquotes>"

SuccessReport(analysis, conversion) ==
    <<"CSV to JSON Conversion Complete!\n\nAnalysis:\n- Rows: ">> \o IntToStr(analysis.total_rows)
    \o <<"\n- Columns: ">> \o Join(analysis.columns)
    \o <<"\n\nJSON Output:\n", CodeFence, "json\n">> \o conversion.json_string
    \o <<"\n", CodeFence, "\n\nSuccessfully converted ">> \o IntToStr(conversion.record_count)
    \o <<" records!">>

\* the tabular branch with the converter called whatever the analysis returned
TabularBranch_converter_always(analysis, conversion) ==
    IF conversion.success
    THEN IF analysis.success
         THEN IF JoinRaises(analysis.columns)
              THEN [raised |-> TRUE, exc |-> "TypeError",
                    calls |-> <<"analyze_csv_simple", "csv_to_json_simple">>]
              ELSE [raised |-> FALSE, value |-> SuccessReport(analysis, conversion),
                    calls |-> <<"analyze_csv_simple", "csv_to_json_simple">>]
         ELSE [raised |-> FALSE, value |-> <<"Analysis failed: ">> \o analysis.error,
               calls |-> <<"analyze_csv_simple", "csv_to_json_simple">>]
    ELSE [raised |-> FALSE, value |-> <<"Conversion failed: ">> \o conversion.error,
          calls |-> <<"analyze_csv_simple", "csv_to_json_simple">>]

\* SimpleCSVAgent.__call__: the returned text or the exception raised, and
\* the tools invoked, in order
\* lines 51-70: the tabular branch, given what the two tools return (the
\* conversion is only evaluated where the code calls csv_to_json_simple)
TabularBranch(analysis, conversion) ==
    IF analysis.success
    THEN IF conversion.success
         THEN IF JoinRaises(analysis.columns)
              THEN [raised |-> TRUE, exc |-> "TypeError",
                    calls |-> <<"analyze_csv_simple", "csv_to_json_simple">>]
              ELSE [raised |-> FALSE, value |-> SuccessReport(analysis, conversion),
                    calls |-> <<"analyze_csv_simple", "csv_to_json_simple">>]
         ELSE [raised |-> FALSE, value |-> <<"Conversion failed: ">> \o conversion.error,
               calls |-> <<"analyze_csv_simple", "csv_to_json_simple">>]
    ELSE [raised |-> FALSE, value |-> <<"Analysis failed: ">> \o analysis.error,
          calls |-> <<"analyze_csv_simple">>]

\* the router with the keyword test ahead of the tabular test
SimpleCSVAgent_call_keyword_first(query) ==
    IF query = <<>>
    THEN [raised |-> FALSE, value |-> Greeting, calls |-> <<>>]
    ELSE IF \E w \in Keywords : Contains(Lower(query), w)
    THEN [raised |-> FALSE, value |-> HelpText, calls |-> <<>>]
    ELSE IF HasChar(query, ",") /\ HasChar(query, "\n")
    THEN TabularBranch(analyze_csv_simple_result(query), csv_to_json_simple_result(query))
    ELSE [raised |-> FALSE, value |-> GenericText, calls |-> <<>>]

\* the router without the "if not query" test
SimpleCSVAgent_call_no_empty_test(query) ==
    IF HasChar(query, ",") /\ HasChar(query, "\n")
    THEN TabularBranch(analyze_csv_simple_result(query), csv_to_json_simple_result(query))
    ELSE IF \E w \in Keywords : Contains(Lower(query), w)
    THEN [raised |-> FALSE, value |-> HelpText, calls |-> <<>>]
    ELSE [raised |-> FALSE, value |-> GenericText, calls |-> <<>>]

SimpleCSVAgent_call(query) ==
    IF query = <<>>
    THEN [raised |-> FALSE, value |-> Greeting, calls |-> <<>>]
    ELSE IF HasChar(query, ",") /\ HasChar(query, "\n")
    THEN TabularBranch(analyze_csv_simple_result(query), csv_to_json_simple_result(query))
    ELSE IF \E w \in Keywords : Contains(Lower(query), w)
    THEN [raised |-> FALSE, value |-> HelpText, calls |-> <<>>]
    ELSE [raised |-> FALSE, value |-> GenericText, calls |-> <<>>]

(***************************************************************************)
(* promote_loader.py                                                       *)
(***************************************************************************)
\* bool(v) for the values a source can return: None, "", 0 and [] are falsy
Truthy(v) ==
    CASE v.t = "str" -> v.s # <<>>
      [] v.t = "int" -> v.n # 0
      [] v.t = "list" -> v.l # <<>>
      [] OTHER -> FALSE

\* os.getenv(name, default) on a variable that is unset or set to a text
getenv(variable, default) == IF variable.set THEN variable.value ELSE default

CsvDefaultPrompt == PyStr(<<"You are a helpful CSV to JSON converter agent.\n\nYour primary job is to convert CSV data to JSON format.\n\nWhen users provide CSV data:\n1. Use analyze_csv to understand the structure\n2. Convert using csv_to_json tool\n3. Show the JSON output clearly\n4. Report conversion statistics\n\nBe helpful and provide clear JSON output.">>)
TestCaseDefaultPrompt == PyStr(<<"You are an expert Test Case Generator Agent specialized in creating comprehensive test cases from requirements and formatting them for JIRA import.\n\nYour capabilities:\n1. Generate detailed test cases from user requirements\n2. Support multiple test types: functional, UI, API, integration, negative\n3. Format output for direct JIRA import (CSV, JSON, XLSX)\n4. Provide quality assurance and best practices\n\nWhen users provide requirements:\n1. Validate requirements and provide suggestions\n2. Generate comprehensive test cases\n3. Format for JIRA import\n4. Provide clear import instructions\n\nFocus on creating professional, actionable test cases that ensure software quality.">>)
GenericDefaultPrompt == PyStr(<<"You are a helpful AI agent. Assist users with their requests professionally and efficiently.">>)
\* the literal returned when anything in load_prompt_for_agent's try raises
BasicFallbackPrompt == PyStr(<<"You are a helpful AI agent.">>)

\* fallback_prompts.get(prompt_name, fallback_prompts["default"])
get_fallback_prompt(prompt_name) ==
    CASE prompt_name = "csv_json_converter" -> CsvDefaultPrompt
      [] prompt_name = "test_case_generator" -> TestCaseDefaultPrompt
      [] OTHER -> GenericDefaultPrompt

\* _get_prompt_template: a placeholder that returns None whether or not
\* GenerativeModel(...) raises inside it
get_prompt_template(m1) == [raised |-> FALSE, value |-> PyNone]

\* a key missing from the JSON object of the REST response
Absent == [t |-> "absent"]

\* _load_via_rest_api: every exception of the body is caught and gives None
load_via_rest_api(rest) ==
    IF rest.kind = "raises" THEN [raised |-> FALSE, value |-> PyNone]
    ELSE IF rest.status = 200
    THEN IF rest.pt_text # Absent THEN [raised |-> FALSE, value |-> rest.pt_text]
         ELSE IF rest.content # Absent THEN [raised |-> FALSE, value |-> rest.content]
         ELSE [raised |-> FALSE, value |-> PyNone]
    ELSE [raised |-> FALSE, value |-> PyNone]

\* _load_via_aiplatform_client: a placeholder that returns None whether or
\* not PipelineServiceClient() raises inside it
load_via_aiplatform_client(m3) == [raised |-> FALSE, value |-> PyNone]

\* load_prompt that does not stop at Method 2: it goes on to Method 3 and
\* returns that source's result
load_prompt_no_stop(prompt_name, e) ==
    LET c1 == IF e.m1 = "import_error" THEN <<>> ELSE <<"_get_prompt_template">>
        r3 == load_via_aiplatform_client(e.m3)
    IN [value |-> r3.value,
        calls |-> c1 \o <<"_load_via_rest_api", "_load_via_aiplatform_client">>]

\* load_prompt that tries the REST source a second time when it returned nothing
load_prompt_retry(prompt_name, e) ==
    LET c1 == IF e.m1 = "import_error" THEN <<>> ELSE <<"_get_prompt_template">>
        r2 == load_via_rest_api(e.rest)
    IN [value |-> r2.value,
        calls |-> IF Truthy(r2.value) THEN Append(c1, "_load_via_rest_api")
                  ELSE c1 \o <<"_load_via_rest_api", "_load_via_rest_api">>]

\* PromptGardenLoader.load_prompt: the value returned and the sources and the
\* fallback registry invoked, in order
load_prompt(prompt_name, e) ==
    LET r1 == get_prompt_template(e.m1)
        \* Method 1 fails when the import at its head or the call raises
        c1 == IF e.m1 = "import_error" THEN <<>> ELSE <<"_get_prompt_template">>
        r2 == load_via_rest_api(e.rest)
        c2 == Append(c1, "_load_via_rest_api")
        r3 == load_via_aiplatform_client(e.m3)
        c3 == Append(c2, "_load_via_aiplatform_client")
    IN IF e.m1 # "import_error" /\ ~r1.raised /\ Truthy(r1.value)
       THEN [value |-> r1.value, calls |-> c1]
       ELSE IF ~r2.raised THEN [value |-> r2.value, calls |-> c2]
       ELSE IF ~r3.raised THEN [value |-> r3.value, calls |-> c3]
       ELSE [value |-> get_fallback_prompt(prompt_name),
             calls |-> Append(c3, "_get_fallback_prompt")]

\* lines 230-235 without the truthiness test
select_prompt_unchecked(agent, p) == [value |-> p, calls |-> <<>>]

\* lines 230-235 of load_prompt_for_agent: the prompt if truthy, else the
\* registry's fallback
select_prompt(agent, p) ==
    IF Truthy(p) THEN [value |-> p, calls |-> <<>>]
    ELSE [value |-> get_fallback_prompt(agent), calls |-> <<"_get_fallback_prompt">>]

(***************************************************************************)
(* Inputs                                                                  *)
(***************************************************************************)
Alphabet == {"a", ",", "\n", "\"", "\r"}

RECURSIVE TextsOfLen(_)
TextsOfLen(n) ==
    IF n = 0 THEN {<<>>}
    ELSE {Append(t, c) : t \in TextsOfLen(n - 1), c \in Alphabet}

BoundedTexts == UNION {TextsOfLen(n) : n \in 0..MaxLen}

\* fixed inputs: the example of the help text with its variant in the local
\* test, greetings and other free text, a table of eleven rows and a table
\* of numeric-looking cells
ScenarioTexts == {
    <<"n", "a", "m", "e", ",", "a", "g", "e", ",", "c", "i", "t", "y", "\n",
      "J", "o", "h", "n", ",", "2", "5", ",", "N", "Y", "C", "\n", "J", "a",
      "n", "e", ",", "3", "0", ",", "L", "A">>,
    <<"n", "a", "m", "e", ",", "a", "g", "e", ",", "c", "i", "t", "y", "\n",
      "J", "o", "h", "n", ",", "2", "5", ",", "N", "e", "w", " ", "Y", "o",
      "r", "k", "\n", "J", "a", "n", "e", ",", "3", "0", ",", "L", "o", "n",
      "d", "o", "n", "\n", "B", "o", "b", ",", "3", "5", ",", "P", "a", "r",
      "i", "s">>,
    <<"H", "e", "l", "l", "o", "!">>,
    <<"H", "I">>,
    <<"h", "e", "l", "p", " ", "m", "e">>,
    <<"t", "h", "i", "s">>,
    <<"x", "y", "z">>,
    <<"a", ",", "b">>,
    <<"h", "e", "l", "l", "o", ",", "w", "o", "r", "l", "d">>,
    <<"h", "i", ",", "\n", "t", "h", "e", "r", "e">>,
    <<"H", "E", "L", "P", "\n">>,
    <<"x", "\n", "y">>,
    <<"i", "d", "\n", "1", "\n", "2", "\n", "3", "\n", "4", "\n", "5", "\n",
      "6", "\n", "7", "\n", "8", "\n", "9", "\n", "1", "0", "\n", "1", "1">>,
    <<"n", ",", "v", "\n", "1", ",", "2", ".", "5", "\n", "0", "0", "7", ",",
      "-", "3">>}

Inputs == BoundedTexts \cup ScenarioTexts

OutputFormats == {"array", "object"}

AgentNames ==
    {"csv_json_converter", "test_case_generator", "nonexistent_agent", "another_agent", "default"}
\* "" stands for the omitted project_id (None)
ProjectIds == {"", "my-project"}
\* the default of os.getenv('GOOGLE_CLOUD_PROJECT', ...) at line 224
DefaultProject == "vertex-ai-demo-468112"
\* GOOGLE_CLOUD_PROJECT in the process environment: unset, empty or a name
EnvironProjects ==
    {[set |-> FALSE], [set |-> TRUE, value |-> ""], [set |-> TRUE, value |-> "env-project"]}
\* a JSON field of the REST response: missing, null, a text, a number or an
\* array; response.json() hands each of them over as decoded
JsonFieldValues ==
    {Absent, PyNone, PyStr(<<>>), PyStr(<<"X">>), PyStr(<<"Y">>),
     PyInt(0), PyInt(5), PyList(<<>>), PyList(<<PyStr(<<"x">>)>>)}
\* requests.get raises, answers with an error status (the body is not read),
\* or answers 200 with a JSON object
RestOutcomes ==
    {[kind |-> "raises"], [kind |-> "response", status |-> 404]}
    \cup [kind : {"response"}, status : {200}, pt_text : JsonFieldValues \ {PyStr(<<"Y">>)},
          content : JsonFieldValues \ {PyStr(<<"X">>)}]
Envs == [GOOGLE_CLOUD_PROJECT : EnvironProjects,
         init : {"ok", "init_raises", "client_raises"},
         m1 : {"import_error", "model_raises", "none"},
         rest : RestOutcomes,
         m3 : {"client_raises", "none"}]

(***************************************************************************)
(* State                                                                   *)
(***************************************************************************)
VARIABLES
    csv_content,   \* the text handed to the tool or the router
    tool,          \* the operation that ran on it ("none" before)
    result,        \* what the operation returned (or raised)
    calls,         \* the tools the router invoked, in order
    agent_name,    \* load_prompt_for_agent's target
    project_id,    \* its project_id argument
    env,           \* what the external services do during this resolution
    rpc,           \* position in load_prompt_for_agent
    loader,        \* the PromptGardenLoader built (its fields), PyNone before
    prompt,        \* the value load_prompt returned
    outcome,       \* what load_prompt_for_agent returned (or raised)
    attempts,      \* sources and registry invoked, in order
    agent,         \* the fields of the SimpleCSVAgent shared by the concurrent calls
    threads,       \* per concurrent call of __call__: its position and its locals
    main_pc,       \* position in the deployment script's main
    steps,         \* main's calls so far, each with what it returned
    frame,         \* main's locals: has_agent_engines, agent, deployed_agent
    deployments,   \* the deployments created, by method, in order
    printed        \* the closing status line main printed

toolVars == <<csv_content, tool, result, calls>>
resolverVars == <<agent_name, project_id, env, rpc, loader, prompt, outcome, attempts>>
routerVars == <<agent, threads>>
deployVars == <<main_pc, steps, frame, deployments, printed>>
vars == <<csv_content, tool, result, calls,
          agent_name, project_id, env, rpc, loader, prompt, outcome, attempts,
          agent, threads, main_pc, steps, frame, deployments, printed>>

ToolsIdle ==
    /\ csv_content = <<>>
    /\ tool = "off"
    /\ result = [success |-> FALSE]
    /\ calls = <<>>

ResolverIdle ==
    /\ agent_name = "default"
    /\ project_id = ""
    /\ env = [GOOGLE_CLOUD_PROJECT |-> [set |-> FALSE], init |-> "ok", m1 |-> "none",
              rest |-> [kind |-> "raises"], m3 |-> "none"]
    /\ rpc = "off"
    /\ loader = PyNone
    /\ prompt = PyNone
    /\ outcome = [raised |-> FALSE, value |-> PyNone]
    /\ attempts = <<>>

\* SimpleCSVAgent.__init__ (lines 38-42): the fields of a fresh agent
AgentFields ==
    [name |-> "csv_json_converter", model |-> "gemini-2.0-flash",
     description |-> "Converts CSV to JSON",
     tools |-> <<"csv_to_json_simple", "analyze_csv_simple">>]

RouterIdle ==
    /\ agent = AgentFields
    /\ threads = <<>>

DeployIdle ==
    /\ main_pc = "off"
    /\ steps = <<>>
    /\ frame = [has_agent_engines |-> FALSE, agent |-> PyNone, deployed_agent |-> PyNone]
    /\ deployments = <<>>
    /\ printed = ""

(***************************************************************************)
(* The tools and the router, each run on a fresh input                     *)
(***************************************************************************)
InitTools ==
    /\ csv_content \in Inputs
    /\ tool = "none"
    /\ result = [success |-> FALSE]
    /\ calls = <<>>
    /\ ResolverIdle
    /\ RouterIdle
    /\ DeployIdle

csv_to_json ==
    /\ tool = "none"
    /\ \E fmt \in OutputFormats :
         /\ result' = csv_to_json_result(csv_content, fmt)
         /\ tool' = "csv_to_json"
    /\ UNCHANGED <<csv_content, calls>>
    /\ UNCHANGED resolverVars
    /\ UNCHANGED <<routerVars, deployVars>>

analyze_csv ==
    /\ tool = "none"
    /\ result' = analyze_csv_result(csv_content)
    /\ tool' = "analyze_csv"
    /\ UNCHANGED <<csv_content, calls>>
    /\ UNCHANGED resolverVars
    /\ UNCHANGED <<routerVars, deployVars>>

csv_to_json_simple ==
    /\ tool = "none"
    /\ result' = csv_to_json_simple_result(csv_content)
    /\ tool' = "csv_to_json_simple"
    /\ UNCHANGED <<csv_content, calls>>
    /\ UNCHANGED resolverVars
    /\ UNCHANGED <<routerVars, deployVars>>

analyze_csv_simple ==
    /\ tool = "none"
    /\ result' = analyze_csv_simple_result(csv_content)
    /\ tool' = "analyze_csv_simple"
    /\ UNCHANGED <<csv_content, calls>>
    /\ UNCHANGED resolverVars
    /\ UNCHANGED <<routerVars, deployVars>>

SimpleCSVAgent ==
    /\ tool = "none"
    /\ \E r \in {SimpleCSVAgent_call(csv_content)} :
          /\ result' = IF r.raised THEN [raised |-> TRUE, exc |-> r.exc]
                       ELSE [raised |-> FALSE, value |-> r.value]
          /\ calls' = r.calls
    /\ tool' = "SimpleCSVAgent"
    /\ UNCHANGED csv_content
    /\ UNCHANGED resolverVars
    /\ UNCHANGED <<routerVars, deployVars>>

NextTools ==
    \/ csv_to_json
    \/ analyze_csv
    \/ csv_to_json_simple
    \/ analyze_csv_simple
    \/ SimpleCSVAgent

SpecTools == InitTools /\ [][NextTools]_vars

(***************************************************************************)
(* load_prompt_for_agent, step by step                                     *)
(***************************************************************************)
InitResolver ==
    /\ agent_name \in AgentNames
    /\ project_id \in ProjectIds
    /\ env \in Envs
    /\ rpc = "PENDING"
    /\ loader = PyNone
    /\ prompt = PyNone
    /\ outcome = [raised |-> FALSE, value |-> PyNone]
    /\ attempts = <<>>
    /\ ToolsIdle
    /\ RouterIdle
    /\ DeployIdle

\* lines 223-227: a project_id that is not truthy is replaced by the
\* environment's GOOGLE_CLOUD_PROJECT, or by the default when that is unset,
\* then PromptGardenLoader(project_id): an exception of vertexai.init or of
\* the client constructor is caught at line 237
PromptGardenLoader_init ==
    /\ rpc = "PENDING"
    /\ IF env.init = "ok"
       THEN /\ loader' = [project_id |-> IF project_id = ""
                                         THEN getenv(env.GOOGLE_CLOUD_PROJECT, DefaultProject)
                                         ELSE project_id,
                          location |-> "us-central1"]
            /\ rpc' = "LOADING"
            /\ UNCHANGED outcome
       ELSE /\ outcome' = [raised |-> FALSE, value |-> BasicFallbackPrompt]
            /\ rpc' = "RESOLVED"
            /\ UNCHANGED loader
    /\ UNCHANGED <<agent_name, project_id, env, prompt, attempts>>
    /\ UNCHANGED toolVars
    /\ UNCHANGED <<routerVars, deployVars>>

\* line 228, loader.load_prompt(agent_name)
LoadPrompt ==
    /\ rpc = "LOADING"
    /\ \E r \in {load_prompt(agent_name, env)} :
          /\ prompt' = r.value
          /\ attempts' = attempts \o r.calls
    /\ rpc' = "LOADED"
    /\ UNCHANGED <<agent_name, project_id, env, loader, outcome>>
    /\ UNCHANGED toolVars
    /\ UNCHANGED <<routerVars, deployVars>>

\* lines 230-235 with a retry: a prompt that is not truthy sends the call back
\* to load_prompt
ReturnPrompt_reload ==
    /\ rpc = "LOADED"
    /\ IF Truthy(prompt)
       THEN /\ outcome' = [raised |-> FALSE, value |-> prompt]
            /\ rpc' = "RESOLVED"
            /\ UNCHANGED attempts
       ELSE /\ rpc' = "LOADING"
            /\ attempts' = <<>>
            /\ UNCHANGED outcome
    /\ UNCHANGED <<agent_name, project_id, env, loader, prompt>>
    /\ UNCHANGED toolVars
    /\ UNCHANGED <<routerVars, deployVars>>

\* lines 230-235
ReturnPrompt ==
    /\ rpc = "LOADED"
    /\ \E r \in {select_prompt(agent_name, prompt)} :
          /\ outcome' = [raised |-> FALSE, value |-> r.value]
          /\ attempts' = attempts \o r.calls
    /\ rpc' = "RESOLVED"
    /\ UNCHANGED <<agent_name, project_id, env, loader, prompt>>
    /\ UNCHANGED toolVars
    /\ UNCHANGED <<routerVars, deployVars>>

NextResolver ==
    \/ PromptGardenLoader_init
    \/ LoadPrompt
    \/ ReturnPrompt

SpecResolver == InitResolver /\ [][NextResolver]_vars

\* every call made returns: the constructor, load_prompt and the selection of
\* lines 230-235 each complete once they are started
SpecResolverFair == SpecResolver /\ WF_vars(NextResolver)

(***************************************************************************)
(* Concurrent calls of one SimpleCSVAgent: each call of __call__ runs on   *)
(* its own thread through the statements of lines 46-88, its locals        *)
(* (query, analysis, conversion) being its own; the calls of the two tools *)
(* are the points where the threads interleave.                            *)
(***************************************************************************)
\* the number of concurrent calls
MaxThreads == 2
Threads == 1..MaxThreads
ConcurrentQueries ==
    {<<>>,
     <<"H", "I">>,
     <<"x", "y", "z">>,
     <<"a", ",", "a", "\n", "a", ",", "a">>,
     <<"a", "\n", "a", ",", "a">>,
     <<",", "\r", "a", "\n">>,
     <<"a", ",", "a", "\n">>}

\* a call that has just been made with the query q
ThreadStart(q) ==
    [pc |-> "called", query |-> q, analysis |-> PyNone, conversion |-> PyNone, reply |-> PyNone]
\* the call returns (or raises) r
Returned(th, r) == [th EXCEPT !.pc = "returned", !.reply = r]

InitRouter ==
    /\ agent = AgentFields
    /\ threads \in [Threads -> {ThreadStart(q) : q \in ConcurrentQueries}]
    /\ ToolsIdle
    /\ ResolverIdle
    /\ DeployIdle

\* lines 46-50 and 72-88: the tests on the query
RouteOn(th) ==
    IF th.query = <<>>
    THEN Returned(th, [raised |-> FALSE, value |-> Greeting])
    ELSE IF HasChar(th.query, ",") /\ HasChar(th.query, "\n")
    THEN [th EXCEPT !.pc = "analyze"]
    ELSE IF \E w \in Keywords : Contains(Lower(th.query), w)
    THEN Returned(th, [raised |-> FALSE, value |-> HelpText])
    ELSE Returned(th, [raised |-> FALSE, value |-> GenericText])

Route(t) ==
    /\ threads[t].pc = "called"
    /\ threads' = [threads EXCEPT ![t] = RouteOn(threads[t])]
    /\ UNCHANGED agent
    /\ UNCHANGED <<toolVars, resolverVars, deployVars>>

\* lines 51-52 and 69-70: the analysis and the test of its success
AnalyzeOn(th, analysis) ==
    IF analysis.success
    THEN [th EXCEPT !.pc = "convert", !.analysis = analysis]
    ELSE Returned([th EXCEPT !.analysis = analysis],
                  [raised |-> FALSE, value |-> <<"Analysis failed: ">> \o analysis.error])

\* the analysis step of a __call__ that keeps its analysis in a field of the agent
Analyze_on_self(t) ==
    /\ threads[t].pc = "analyze"
    /\ threads' = [threads EXCEPT
                      ![t] = AnalyzeOn(threads[t], analyze_csv_simple_result(threads[t].query))]
    /\ agent' = [f \in DOMAIN agent \cup {"last_analysis"} |->
                    IF f = "last_analysis" THEN analyze_csv_simple_result(threads[t].query)
                    ELSE agent[f]]
    /\ UNCHANGED <<toolVars, resolverVars, deployVars>>

Analyze(t) ==
    /\ threads[t].pc = "analyze"
    /\ threads' = [threads EXCEPT
                      ![t] = AnalyzeOn(threads[t], analyze_csv_simple_result(threads[t].query))]
    /\ UNCHANGED agent
    /\ UNCHANGED <<toolVars, resolverVars, deployVars>>

\* line 53
Convert(t) ==
    /\ threads[t].pc = "convert"
    /\ threads' = [threads EXCEPT ![t].pc = "report",
                                  ![t].conversion = csv_to_json_simple_result(threads[t].query)]
    /\ UNCHANGED agent
    /\ UNCHANGED <<toolVars, resolverVars, deployVars>>

\* lines 54-68: the report built of the thread's analysis and conversion
ReportOn(th) ==
    Returned(th,
             IF th.conversion.success
             THEN IF JoinRaises(th.analysis.columns)
                  THEN [raised |-> TRUE, exc |-> "TypeError"]
                  ELSE [raised |-> FALSE, value |-> SuccessReport(th.analysis, th.conversion)]
             ELSE [raised |-> FALSE, value |-> <<"Conversion failed: ">> \o th.conversion.error])

Report(t) ==
    /\ threads[t].pc = "report"
    /\ threads' = [threads EXCEPT ![t] = ReportOn(threads[t])]
    /\ UNCHANGED agent
    /\ UNCHANGED <<toolVars, resolverVars, deployVars>>

NextRouter ==
    \E t \in Threads :
        \/ Route(t)
        \/ Analyze(t)
        \/ Convert(t)
        \/ Report(t)

SpecRouter == InitRouter /\ [][NextRouter]_vars

(***************************************************************************)
(* deploy_csv_agent_v2.py: main, step by step.  What gcloud, pip, the      *)
(* cloud services and the user do is chosen at each step.                  *)
(***************************************************************************)
\* whitespace characters a TLA+ string cannot spell, each kept as one piece
\* written as its Python escape
VerticalTab == "\\x0b"
Separators == {"\\x1c", "\\x1d", "\\x1e", "\\x1f"}
NoBreakSpace == "\\xa0"
UnicodeSpaces ==
    {"\\x85", NoBreakSpace, "\\u1680", "\\u2000", "\\u2001", "\\u2002", "\\u2003", "\\u2004",
     "\\u2005", "\\u2006", "\\u2007", "\\u2008", "\\u2009", "\\u200a", "\\u2028", "\\u2029",
     "\\u202f", "\\u205f", "\\u3000"}

\* str.strip(): the leading and trailing characters c with c.isspace() are
\* removed
Blank == {" ", "\t", "\n", "\r", "\f", VerticalTab} \cup Separators \cup UnicodeSpaces
RECURSIVE LStrip(_)
LStrip(text) == IF text # <<>> /\ Head(text) \in Blank THEN LStrip(Tail(text)) ELSE text
RECURSIVE RStrip(_)
RStrip(text) ==
    IF text # <<>> /\ text[Len(text)] \in Blank THEN RStrip(SubSeq(text, 1, Len(text) - 1))
    ELSE text
Strip(text) == LStrip(RStrip(text))

\* input(...).strip().lower() in ['yes', 'y']
Accepts(text) == Lower(Strip(text)) \in {<<"y", "e", "s">>, <<"y">>}

\* what the user does at a prompt: a line of text, or end of input / Ctrl-C
PromptTexts ==
    {<<"y", "e", "s">>, <<"y">>, <<"Y", "E", "S">>, <<" ", "Y", " ">>,
     <<"n", "o">>, <<>>, <<"y", "e", "s", "!">>,
     <<"y", "\f">>, <<"\f", "y", "e", "s">>, <<"y", "e", "s", " ", "\f", " ">>,
     <<VerticalTab, "Y", "\\x1c">>, <<NoBreakSpace, "y", "e", "s", "\\u3000">>,
     <<"y", " ", "e", "s">>, <<"\\x00", "y">>}
Answers == [kind : {"text"}, text : PromptTexts] \cup {[kind |-> "interrupt"]}

InitDeploy ==
    /\ main_pc = "gcloud_version"
    /\ steps = <<>>
    /\ frame = [has_agent_engines |-> FALSE, agent |-> PyNone, deployed_agent |-> PyNone]
    /\ deployments = <<>>
    /\ printed = ""
    /\ ToolsIdle
    /\ ResolverIdle
    /\ RouterIdle

\* main goes on to the statement at pc
Continue(pc, log) ==
    /\ main_pc' = pc
    /\ steps' = log
    /\ UNCHANGED <<frame, deployments, printed>>
    /\ UNCHANGED <<toolVars, resolverVars, routerVars>>

\* main prints the message and returns
Return(message, log) ==
    /\ main_pc' = "returned"
    /\ steps' = log
    /\ printed' = message
    /\ UNCHANGED <<frame, deployments>>
    /\ UNCHANGED <<toolVars, resolverVars, routerVars>>

\* an exception leaves main
Raise(log) ==
    /\ main_pc' = "raised"
    /\ steps' = log
    /\ UNCHANGED <<frame, deployments, printed>>
    /\ UNCHANGED <<toolVars, resolverVars, routerVars>>

Called(call, returned) == Append(steps, [call |-> call, returned |-> returned])

\* the answer typed at a prompt, as the log keeps it
Typed(asked, answer) ==
    Append(steps, [call |-> "input", asked |-> asked,
                   returned |-> IF answer.kind = "text" THEN "text" ELSE "raised",
                   text |-> IF answer.kind = "text" THEN answer.text ELSE <<>>])

\* lines 507-516: check_gcloud_auth returned False
AuthFailedAfter(log) ==
    Return("Authentication setup failed",
           Append(log, [call |-> "check_gcloud_auth", returned |-> "False"]))
AuthFailed == AuthFailedAfter(steps)

\* lines 23-37: gcloud version
gcloud_version ==
    /\ main_pc = "gcloud_version"
    /\ \E installed \in BOOLEAN :
          IF installed THEN Continue("gcloud_auth_list", steps) ELSE AuthFailed

\* lines 39-61: gcloud auth list
gcloud_auth_list ==
    /\ main_pc = "gcloud_auth_list"
    /\ \E out \in {"account", "empty", "error"} :
          IF out = "account" THEN Continue("gcloud_get_project", steps) ELSE AuthFailed

\* lines 63-75 and 93-98: gcloud config get-value project
gcloud_get_project ==
    /\ main_pc = "gcloud_get_project"
    /\ \E out \in {"required", "other", "error"} :
          CASE out = "required" -> Continue("gcloud_adc", steps)
            [] out = "other" -> Continue("ask_set_project", steps)
            [] out = "error" -> Continue("gcloud_set_project_again", steps)

\* lines 77-92: the prompt "Set gcloud project to ...?"
ask_set_project ==
    /\ main_pc = "ask_set_project"
    /\ \E answer \in Answers :
          IF answer.kind = "text" /\ Accepts(answer.text)
          THEN Continue("gcloud_set_project", Typed("set_project", answer))
          ELSE AuthFailedAfter(Typed("set_project", answer))

\* lines 80-85: gcloud config set project, run inside the try of lines
\* 78-92; its CalledProcessError is caught by the except clause of line 96,
\* a Ctrl-C while it runs by the except clause of line 90, which returns False
gcloud_set_project ==
    /\ main_pc = "gcloud_set_project"
    /\ \E out \in {"done", "failed", "interrupted"} :
          CASE out = "done" -> Continue("gcloud_adc", steps)
            [] out = "failed" -> Continue("gcloud_set_project_again", steps)
            [] out = "interrupted" -> AuthFailed

\* lines 96-107: the except clause sets the project itself
gcloud_set_project_again ==
    /\ main_pc = "gcloud_set_project_again"
    /\ \E done \in BOOLEAN :
          IF done THEN Continue("gcloud_adc", steps) ELSE AuthFailed

\* lines 109-130: gcloud auth application-default print-access-token
gcloud_adc ==
    /\ main_pc = "gcloud_adc"
    /\ \E working \in BOOLEAN :
          IF working
          THEN Continue("verify_bucket_access", Called("check_gcloud_auth", "True"))
          ELSE AuthFailed

\* lines 518-522 and 220-268
verify_bucket_access ==
    /\ main_pc = "verify_bucket_access"
    /\ \E out \in {"ok", "client_raises", "no_bucket", "read_fails", "write_fails"} :
          IF out = "ok"
          THEN Continue("fix_dependencies", Called("verify_bucket_access", "True"))
          ELSE Return("Bucket access verification failed",
                      Called("verify_bucket_access", "False"))

\* lines 524-528 and 132-188: a failing pip uninstall is passed over, a
\* failing pip install raises CalledProcessError, which nothing catches
fix_dependencies ==
    /\ main_pc = "fix_dependencies"
    /\ \E installed \in BOOLEAN :
          IF installed
          THEN Continue("verify_imports", Called("fix_dependencies", "True"))
          ELSE Raise(Called("fix_dependencies", "raised"))

\* lines 530-534 and 190-218: the run goes on whatever verify_imports returns
verify_imports ==
    /\ main_pc = "verify_imports"
    /\ \E out \in {"all", "no_agent_engines", "import_error"} :
          /\ main_pc' = "setup_environment"
          /\ steps' = Called("verify_imports", IF out = "all" THEN "True" ELSE "False")
          /\ frame' = [frame EXCEPT !.has_agent_engines = (out = "all")]
          /\ UNCHANGED <<deployments, printed>>
          /\ UNCHANGED <<toolVars, resolverVars, routerVars>>

\* lines 536-540 and 302-352
setup_environment ==
    /\ main_pc = "setup_environment"
    /\ \E out \in {"ok", "no_credentials", "init_fails"} :
          IF out = "ok"
          THEN Continue("create_agent", Called("setup_environment", "True"))
          ELSE Return("Environment setup failed", Called("setup_environment", "False"))

\* lines 542-547 and 270-300: a failing local test of the agent is passed over
create_agent ==
    /\ main_pc = "create_agent"
    /\ \E out \in {"imported", "test_fails", "import_error"} :
          IF out = "import_error"
          THEN Return("Agent creation failed", Called("create_agent", "None"))
          ELSE /\ main_pc' = "confirm"
               /\ steps' = Called("create_agent", "root_agent")
               /\ frame' = [frame EXCEPT !.agent = [t |-> "root_agent"]]
               /\ UNCHANGED <<deployments, printed>>
               /\ UNCHANGED <<toolVars, resolverVars, routerVars>>

\* Step 7 going on to the deployment whatever is typed
confirm_unchecked ==
    /\ main_pc = "confirm"
    /\ \E answer \in Answers :
          IF answer.kind = "text"
          THEN Continue("deploy", Typed("deploy", answer))
          ELSE Return("Deployment cancelled.", Typed("deploy", answer))

\* lines 549-566, Step 7: the confirmation prompt
confirm ==
    /\ main_pc = "confirm"
    /\ \E answer \in Answers :
          IF answer.kind = "text" /\ Accepts(answer.text)
          THEN Continue("deploy", Typed("deploy", answer))
          ELSE Return("Deployment cancelled.", Typed("deploy", answer))

\* the deployed object a method returns
RemoteApp(method) == [t |-> "remote_app", method |-> method]

\* what a deployment method meets: the create call fails (or what precedes
\* it does), the create call succeeds and remote_app.resource_name raises in
\* the print that follows it, or both succeed; an error of the test of the
\* deployed agent is passed over
DeployOutcomes == {"failed", "created_then_raised", "returned"}

\* lines 569-573 with has_agent_engines true, and 354-434: every exception
\* after line 359, also one raised once agent_engines.create has returned,
\* is caught at line 430 and gives None
deploy_with_agent_engines ==
    /\ main_pc = "deploy"
    /\ frame.has_agent_engines
    /\ \E out \in DeployOutcomes :
          /\ steps' = Called("deploy_with_agent_engines",
                             IF out = "returned" THEN "remote_app" ELSE "None")
          /\ frame' = [frame EXCEPT !.deployed_agent =
                           IF out = "returned" THEN RemoteApp("agent_engines") ELSE PyNone]
          /\ deployments' = IF out = "failed" THEN deployments
                            ELSE Append(deployments, "agent_engines")
    /\ main_pc' = "fallback"
    /\ UNCHANGED printed
    /\ UNCHANGED <<toolVars, resolverVars, routerVars>>

\* lines 569-573 with has_agent_engines false
skip_agent_engines ==
    /\ main_pc = "deploy"
    /\ ~frame.has_agent_engines
    /\ Continue("fallback", steps)

\* the fallback of lines 575-577 taken whatever deployed_agent is
deploy_with_reasoning_engines_always ==
    /\ main_pc = "fallback"
    /\ \E out \in DeployOutcomes :
          /\ steps' = Called("deploy_with_reasoning_engines",
                             IF out = "returned" THEN "remote_app" ELSE "None")
          /\ frame' = [frame EXCEPT !.deployed_agent =
                           IF out = "returned" THEN RemoteApp("reasoning_engines") ELSE PyNone]
          /\ deployments' = IF out = "failed" THEN deployments
                            ELSE Append(deployments, "reasoning_engines")
    /\ main_pc' = "report"
    /\ UNCHANGED printed
    /\ UNCHANGED <<toolVars, resolverVars, routerVars>>

\* lines 575-577 with no deployed agent, and 436-492: every exception after
\* line 441, also one raised once ReasoningEngine.create has returned, is
\* caught at line 488 and gives None
deploy_with_reasoning_engines ==
    /\ main_pc = "fallback"
    /\ frame.deployed_agent = PyNone
    /\ \E out \in DeployOutcomes :
          /\ steps' = Called("deploy_with_reasoning_engines",
                             IF out = "returned" THEN "remote_app" ELSE "None")
          /\ frame' = [frame EXCEPT !.deployed_agent =
                           IF out = "returned" THEN RemoteApp("reasoning_engines") ELSE PyNone]
          /\ deployments' = IF out = "failed" THEN deployments
                            ELSE Append(deployments, "reasoning_engines")
    /\ main_pc' = "report"
    /\ UNCHANGED printed
    /\ UNCHANGED <<toolVars, resolverVars, routerVars>>

\* lines 575-577 with a deployed agent
skip_reasoning_engines ==
    /\ main_pc = "fallback"
    /\ frame.deployed_agent # PyNone
    /\ Continue("report", steps)

\* lines 579-601
report ==
    /\ main_pc = "report"
    /\ Return(IF frame.deployed_agent # PyNone THEN "SUCCESS!"
              ELSE "All deployment methods failed - check errors above",
              steps)

NextDeploy ==
    \/ gcloud_version
    \/ gcloud_auth_list
    \/ gcloud_get_project
    \/ ask_set_project
    \/ gcloud_set_project
    \/ gcloud_set_project_again
    \/ gcloud_adc
    \/ verify_bucket_access
    \/ fix_dependencies
    \/ verify_imports
    \/ setup_environment
    \/ create_agent
    \/ confirm
    \/ deploy_with_agent_engines
    \/ skip_agent_engines
    \/ deploy_with_reasoning_engines
    \/ skip_reasoning_engines
    \/ report

SpecDeploy == InitDeploy /\ [][NextDeploy]_vars

(***************************************************************************)
(* Vocabulary of the properties                                            *)
(***************************************************************************)
Range(f) == {f[i] : i \in DOMAIN f}

\* the records csv.reader yields for the text (the header line first)
RawRows(text) == ReaderRows(SplitLines(text, <<>>), 1)

\* a header line and no data row: every record after the header is blank
HeaderOnlyRows(r) ==
    /\ ~r.err
    /\ r.rows # <<>>
    /\ r.rows[1] # <<>>
    /\ \A i \in 2..Len(r.rows) : r.rows[i] = <<>>
HeaderOnly(text) == HeaderOnlyRows(RawRows(text))

\* a header line and at least one data row
HasDataRows(r) ==
    /\ ~r.err
    /\ r.rows # <<>>
    /\ r.rows[1] # <<>>
    /\ \E i \in 2..Len(r.rows) : r.rows[i] # <<>>
HasData(text) == HasDataRows(RawRows(text))

\* the header's column names and the non-blank data rows
HeaderOf(text) == RawRows(text).rows[1]
DataRows(text) == SelectSeq(Tail(RawRows(text).rows), LAMBDA row : row # <<>>)

\* the REST source succeeds: it returns a value that load_prompt_for_agent
\* takes as a prompt (a non-empty text, or any other truthy JSON value)
RestSucceeds == Truthy(load_via_rest_api(env.rest).value)
Resolved == rpc = "RESOLVED"
\* the loader was built and load_prompt has run its sources
SourcesRan == env.init = "ok" /\ rpc \in {"LOADED", "RESOLVED"}

(***************************************************************************)
(* C1: instruction resolution never raises and, once resolved, has         *)
(* returned a non-empty string, for every target name and every outcome of *)
(* the sources and of the loader's construction.                           *)
(***************************************************************************)
C1_NonEmptyNeverRaises ==
    /\ ~outcome.raised
    /\ Resolved => outcome.value.t = "str" /\ outcome.value.s # <<>>

\* resolved although the loader could not be constructed and no source ran
C1_Witness == Resolved /\ env.init = "client_raises" /\ Truthy(outcome.value)

(***************************************************************************)
(* C2: when the REST source is reached (the structured-api source having   *)
(* failed) and returns a non-empty text X, the resolution returns exactly  *)
(* X, the REST source was invoked once and was the last one invoked, and   *)
(* neither the client-library source nor the fallback registry was         *)
(* invoked.                                                                *)
(***************************************************************************)
C2_FirstMatch ==
    (SourcesRan /\ RestSucceeds) =>
        /\ prompt = load_via_rest_api(env.rest).value
        /\ Resolved => outcome.value = load_via_rest_api(env.rest).value
        /\ "_load_via_aiplatform_client" \notin Range(attempts)
        /\ "_get_fallback_prompt" \notin Range(attempts)
        /\ Cardinality({i \in DOMAIN attempts : attempts[i] = "_load_via_rest_api"}) = 1
        /\ attempts[Len(attempts)] = "_load_via_rest_api"

C2_Witness ==
    /\ Resolved
    /\ outcome.value = PyStr(<<"X">>)
    /\ attempts = <<"_get_prompt_template", "_load_via_rest_api">>

(***************************************************************************)
(* C3: whenever every source fails, also when the loader cannot be         *)
(* constructed, and the target is "csv_json_converter", the resolution     *)
(* returns the default registered for that name.                           *)
(***************************************************************************)
C3_RegisteredDefault ==
    (Resolved /\ agent_name = "csv_json_converter" /\ (env.init # "ok" \/ ~RestSucceeds)) =>
        outcome.value = CsvDefaultPrompt

(***************************************************************************)
(* C4: the built-in fallback is taken only after every source, the         *)
(* client-library source included, has been attempted: when the first two  *)
(* sources fail the third is attempted.                                    *)
(***************************************************************************)
C4_AllSourcesBeforeFallback ==
    (Resolved /\ env.init = "ok" /\ ~RestSucceeds) =>
        /\ "_load_via_aiplatform_client" \in Range(attempts)
        /\ \A i \in DOMAIN attempts : attempts[i] = "_get_fallback_prompt" =>
               \E j \in 1..(i - 1) : attempts[j] = "_load_via_aiplatform_client"

(***************************************************************************)
(* C5: on a header-only input analyze_csv and csv_to_json (either format)  *)
(* return success = false with the "No data found" error, and the          *)
(* converter's record_count is 0.                                          *)
(***************************************************************************)
C5_HeaderOnlyFails ==
    HeaderOnly(csv_content) =>
        /\ tool = "csv_to_json" =>
               /\ result.success = FALSE
               /\ result.error = <<"No data found in CSV">>
               /\ result.record_count = 0
        /\ tool = "analyze_csv" =>
               /\ result.success = FALSE
               /\ result.error = <<"No data found in CSV">>

\* the converter ran on the header line a,a followed by a line break
C5_Witness ==
    /\ tool = "csv_to_json"
    /\ csv_content = <<"a", ",", "a", "\n">>
    /\ result.success = FALSE

(***************************************************************************)
(* C6: the outcome of a header-only input (a header line, zero data rows)  *)
(* is distinguishable from the outcome of the empty text, for the          *)
(* converter and for the analyzer.                                         *)
(***************************************************************************)
C6_EmptyVsHeaderOnly ==
    (tool \in {"csv_to_json", "analyze_csv"} /\ HeaderOnly(csv_content)) =>
        /\ tool = "csv_to_json" => result # csv_to_json_result(<<>>, "array")
        /\ tool = "analyze_csv" => result # analyze_csv_result(<<>>)

(***************************************************************************)
(* C7: the router returns a text and never raises, for every input.        *)
(***************************************************************************)
C7_RouterNeverRaises == tool = "SimpleCSVAgent" => ~result.raised

(***************************************************************************)
(* C8: on a header-only input that takes the tabular branch the router     *)
(* reports the analysis error, invokes only the analyzer and produces no   *)
(* success summary.                                                        *)
(***************************************************************************)
C8_RouterHeaderOnly ==
    (/\ tool = "SimpleCSVAgent"
     /\ HasChar(csv_content, ",")
     /\ HasChar(csv_content, "\n")
     /\ HeaderOnly(csv_content)) =>
        /\ ~result.raised
        /\ Head(result.value) = "Analysis failed: "
        /\ calls = <<"analyze_csv_simple">>

(***************************************************************************)
(* C9: for an input with at least one data row analyze_csv succeeds with   *)
(* total_rows the number of data records, total_columns the number of      *)
(* header fields, columns the header names in order and first_row the      *)
(* first record.                                                           *)
(***************************************************************************)
C9_AnalysisShape ==
    (tool = "analyze_csv" /\ HasData(csv_content)) =>
        /\ result.success
        /\ result.total_rows = Len(DataRows(csv_content))
        /\ result.total_columns = Len(HeaderOf(csv_content))
        /\ result.columns = [i \in 1..Len(HeaderOf(csv_content)) |-> PyStr(HeaderOf(csv_content)[i])]
        /\ result.first_row = DictRow(HeaderOf(csv_content), DataRows(csv_content)[1])

(***************************************************************************)
(* C10: in a successful conversion of a header line and data rows every    *)
(* record has the same column names in the same order as every other       *)
(* record, and every key of a record is a column name of the header line.  *)
(***************************************************************************)
RecordsOf(payload) ==
    IF payload.t = "list" THEN payload.l
    ELSE [i \in 1..Len(payload.items) |-> payload.items[i][2]]

C10_RecordInvariant ==
    (tool \in {"csv_to_json", "csv_to_json_simple"} /\ HasData(csv_content) /\ result.success) =>
        LET recs == RecordsOf(result.json_output)
        IN /\ \A i, j \in 1..Len(recs) : DictKeys(recs[i].items) = DictKeys(recs[j].items)
           /\ \A i \in 1..Len(recs) :
                  Range(DictKeys(recs[i].items)) = {PyStr(h) : h \in Range(HeaderOf(csv_content))}

\* the header names as record keys, in header order
HeaderKeys(text) == [j \in 1..Len(HeaderOf(text)) |-> PyStr(HeaderOf(text)[j])]

\* csv_to_json succeeded on a header line with data rows
Converted == tool = "csv_to_json" /\ HasData(csv_content) /\ result.success

(***************************************************************************)
(* C11: the record of a data row that has fewer fields than the header     *)
(* holds the fields the row has and nothing else: the missing trailing     *)
(* columns are absent keys, not keys with a null or empty value.           *)
(***************************************************************************)
C11_MissingFieldsOmitted ==
    Converted =>
        \A i \in 1..Len(DataRows(csv_content)) :
            Len(DataRows(csv_content)[i]) < Len(HeaderOf(csv_content)) =>
                RecordsOf(result.json_output)[i]
                    = PyDict(ZipDict(HeaderOf(csv_content), DataRows(csv_content)[i], <<>>))

(***************************************************************************)
(* C12: every cell value of every record of a successful conversion is a   *)
(* string, the text of a cell of the record's data row; no value is a      *)
(* null or a list.                                                         *)
(***************************************************************************)
C12_ValuesAreStrings ==
    Converted =>
        \A i \in 1..Len(RecordsOf(result.json_output)) :
            \A j \in 1..Len(RecordsOf(result.json_output)[i].items) :
                /\ RecordsOf(result.json_output)[i].items[j][2].t = "str"
                /\ RecordsOf(result.json_output)[i].items[j][2].s
                       \in Range(DataRows(csv_content)[i])

(***************************************************************************)
(* C13: the i-th record of the array payload is the record of the i-th     *)
(* data row, and the keys of every record, in order, are the header's      *)
(* column names in header order.                                           *)
(***************************************************************************)
C13_OrderPreserved ==
    (Converted /\ result.format = "array") =>
        /\ Len(result.json_output.l) = Len(DataRows(csv_content))
        /\ \A i \in 1..Len(result.json_output.l) :
               /\ result.json_output.l[i] = DictRow(HeaderOf(csv_content), DataRows(csv_content)[i])
               /\ DictKeys(result.json_output.l[i].items) = HeaderKeys(csv_content)

\* the values of an object payload, in key order
ObjectValues(payload) == [i \in 1..Len(payload.items) |-> payload.items[i][2]]
\* the keys of an object payload, in key order
ObjectKeys(payload) == [i \in 1..Len(payload.items) |-> payload.items[i][1]]

\* what the two formats must share: the result of the conversion `res` against
\* the array-format result `arr` of the same input
SameAsArray(res, arr) ==
    /\ res.success = arr.success
    /\ res.record_count = arr.record_count
    /\ res.success =>
           /\ res.columns = arr.columns
           /\ res.format = "object" =>
                  /\ res.json_output.t = "dict"
                  /\ ObjectValues(res.json_output) = arr.json_output.l

(***************************************************************************)
(* C14: for every input the object-format and the array-format conversion  *)
(* return the same success flag, record_count and columns, and the values  *)
(* of the object payload in key order are the records of the array         *)
(* payload in order.                                                       *)
(***************************************************************************)
C14_FormatEquivalence ==
    tool = "csv_to_json" => SameAsArray(result, csv_to_json_result(csv_content, "array"))

\* an object-format conversion of three data rows that differ
C14_Witness ==
    /\ tool = "csv_to_json"
    /\ result.success
    /\ result.format = "object"
    /\ result.record_count = 3
    /\ ObjectValues(result.json_output)[1] # ObjectValues(result.json_output)[3]

(***************************************************************************)
(* C15: the object payload has one key per data row; the i-th key is       *)
(* "row_i" (i from 1) and maps to the i-th row's record, so the keys are   *)
(* row_1 .. row_n for n = record_count, without gap or duplicate.          *)
(***************************************************************************)
C15_RowKeys ==
    (tool = "csv_to_json" /\ result.success /\ result.format = "object") =>
        /\ Len(result.json_output.items) = result.record_count
        /\ result.record_count = Len(DataRows(csv_content))
        /\ \A i \in 1..result.record_count :
               /\ ObjectKeys(result.json_output)[i]
                      = PyStr(<<"r", "o", "w", "_">> \o IntToStr(i))
               /\ HasData(csv_content) =>
                      ObjectValues(result.json_output)[i]
                          = DictRow(HeaderOf(csv_content), DataRows(csv_content)[i])
        /\ \A i, j \in 1..result.record_count :
               i # j => ObjectKeys(result.json_output)[i] # ObjectKeys(result.json_output)[j]

\* an object-format conversion of eleven rows: the keys reach row_10 and row_11
C15_Witness ==
    /\ tool = "csv_to_json"
    /\ result.success
    /\ result.format = "object"
    /\ result.record_count = 11
    /\ ObjectKeys(result.json_output)[10] = PyStr(<<"r", "o", "w", "_", "1", "0">>)
    /\ ObjectKeys(result.json_output)[11] = PyStr(<<"r", "o", "w", "_", "1", "1">>)

\* the input parses and has a non-blank line after the first: it yields records
YieldsRecords(text) ==
    /\ ~RawRows(text).err
    /\ RawRows(text).rows # <<>>
    /\ DataRows(text) # <<>>

(***************************************************************************)
(* C16: on an input that yields one or more records csv_to_json returns    *)
(* success = true in either format, record_count is the number of records, *)
(* the payload is present and there is no error field.                     *)
(***************************************************************************)
C16_RecordsSucceed ==
    (tool = "csv_to_json" /\ YieldsRecords(csv_content)) =>
        /\ result.success = TRUE
        /\ result.format \in OutputFormats
        /\ result.json_output # PyNone
        /\ result.record_count = Len(RecordsOf(result.json_output))
        /\ result.record_count = Len(DataRows(csv_content))
        /\ "error" \notin DOMAIN result

\* the object-format conversion of a header line and one data row of two fields
C16_Witness ==
    /\ csv_content = <<"a", "\n", "a", ",", "a">>
    /\ tool = "csv_to_json"
    /\ result.success
    /\ result.format = "object"
    /\ result.record_count = 1

(***************************************************************************)
(* C17: csv_to_json and analyze_csv return a result with a success flag    *)
(* for every input, never an exception; a parser failure is returned as    *)
(* success = false with an error message, and a failed conversion has no   *)
(* payload and record_count 0.                                             *)
(***************************************************************************)
C17_ToolsNeverRaise ==
    tool \in {"csv_to_json", "analyze_csv"} =>
        /\ "success" \in DOMAIN result
        /\ "raised" \notin DOMAIN result
        /\ RawRows(csv_content).err => ~result.success
        /\ ~result.success =>
               /\ "error" \in DOMAIN result
               /\ result.error # <<>>
               /\ tool = "csv_to_json" =>
                      /\ result.json_output = PyNone
                      /\ result.record_count = 0

\* the converter ran on a text the parser rejects (a bare carriage return inside a line)
C17_Witness ==
    /\ csv_content = <<"a", "\r", "a">>
    /\ RawRows(csv_content).err
    /\ tool = "csv_to_json"
    /\ result.success = FALSE
    /\ result.error = <<"CSV parsing error: ", CsvErrorText>>

(***************************************************************************)
(* C18: for an input with at least one data row, parsing the json_string   *)
(* of the array-format conversion gives records equal, record for record   *)
(* and field for field, to the records of json_output, and every value of  *)
(* the parsed records is a string.                                         *)
(***************************************************************************)
C18_RoundTrip ==
    (Converted /\ result.format = "array") =>
        /\ json_loads(result.json_string) = result.json_output
        /\ \A i \in 1..Len(json_loads(result.json_string).l) :
               \A j \in 1..Len(json_loads(result.json_string).l[i].items) :
                   json_loads(result.json_string).l[i].items[j][2].t = "str"

\* the text holds "hello", "hi" or "help", in any letter case
HasKeyword(text) == \E w \in Keywords : Contains(Lower(text), w)
\* the text holds a comma and a line break
LooksTabular(text) == HasChar(text, ",") /\ HasChar(text, "\n")

(***************************************************************************)
(* C19: a non-empty input with a comma and a line break takes the tabular  *)
(* branch (the analyzer is called first and the answer is neither the help *)
(* text nor the generic message), keyword or not; any other non-empty      *)
(* input calls no tool and is answered with the help text if and only if   *)
(* it holds "hello", "hi" or "help" in any letter case, and with the       *)
(* generic message otherwise.                                              *)
(***************************************************************************)
C19_RouterClassification ==
    (tool = "SimpleCSVAgent" /\ csv_content # <<>>) =>
        IF LooksTabular(csv_content)
        THEN /\ calls # <<>>
             /\ calls[1] = "analyze_csv_simple"
             /\ ~result.raised => result.value \notin {HelpText, GenericText, Greeting}
        ELSE /\ calls = <<>>
             /\ ~result.raised
             /\ HasKeyword(csv_content) <=> result.value = HelpText
             /\ ~HasKeyword(csv_content) <=> result.value = GenericText

\* the router took the tabular branch on "hi," / "there", which holds a keyword
C19_Witness ==
    /\ csv_content = <<"h", "i", ",", "\n", "t", "h", "e", "r", "e">>
    /\ HasKeyword(csv_content)
    /\ tool = "SimpleCSVAgent"
    /\ calls = <<"analyze_csv_simple", "csv_to_json_simple">>
    /\ ~result.raised

(***************************************************************************)
(* C20: the empty input is answered with the greeting, and neither the     *)
(* analyzer nor the converter is called for it.                            *)
(***************************************************************************)
C20_EmptyGreets ==
    (tool = "SimpleCSVAgent" /\ csv_content = <<>>) =>
        /\ ~result.raised
        /\ result.value = Greeting
        /\ "analyze_csv_simple" \notin Range(calls)
        /\ "csv_to_json_simple" \notin Range(calls)

\* the router answered the empty input
C20_Witness ==
    /\ csv_content = <<>>
    /\ tool = "SimpleCSVAgent"
    /\ result.value = Greeting
    /\ calls = <<>>

\* the router answered a non-empty input through its tabular branch
RoutedTabular == tool = "SimpleCSVAgent" /\ csv_content # <<>> /\ LooksTabular(csv_content)

\* the returned text is a success summary
IsSuccessReport(value) ==
    value # <<>> /\ value[1] = "CSV to JSON Conversion Complete!\n\nAnalysis:\n- Rows: "

(***************************************************************************)
(* C21: in the tabular branch the analyzer is called first; the converter  *)
(* is called, after it, exactly when the analysis returned success; an     *)
(* analysis failure is answered with the report of the analysis error and  *)
(* no call of the converter; a success summary is returned only when both  *)
(* the analysis and the conversion succeeded.                              *)
(***************************************************************************)
C21_AnalyzeThenConvert ==
    RoutedTabular =>
        /\ calls \in {<<"analyze_csv_simple">>, <<"analyze_csv_simple", "csv_to_json_simple">>}
        /\ "csv_to_json_simple" \in Range(calls) <=> analyze_csv_simple_result(csv_content).success
        /\ ~analyze_csv_simple_result(csv_content).success =>
               /\ ~result.raised
               /\ result.value
                      = <<"Analysis failed: ">> \o analyze_csv_simple_result(csv_content).error
        /\ (~result.raised /\ IsSuccessReport(result.value)) =>
               /\ analyze_csv_simple_result(csv_content).success
               /\ csv_to_json_simple_result(csv_content).success

\* the analysis failed on a text with a comma, a line break and a bare
\* carriage return: the converter was not called
C21_Witness ==
    /\ RoutedTabular
    /\ RawRows(csv_content).err
    /\ calls = <<"analyze_csv_simple">>
    /\ result.value = <<"Analysis failed: ", CsvErrorText>>

\* the place of a fixed piece of the success summary in the returned text
PieceAt(value, piece) == CHOOSE i \in 1..Len(value) : value[i] = piece
\* the parts of a success summary: the stated row count, the listed columns,
\* the JSON between the fences and the stated record count
RowsStated(value) == SubSeq(value, 2, PieceAt(value, "\n- Columns: ") - 1)
ColumnsStated(value) ==
    SubSeq(value, PieceAt(value, "\n- Columns: ") + 1, PieceAt(value, "\n\nJSON Output:\n") - 1)
JsonStated(value) ==
    SubSeq(value, PieceAt(value, "json\n") + 1,
           PieceAt(value, "\n\nSuccessfully converted ") - 3)
RecordsStated(value) ==
    SubSeq(value, PieceAt(value, "\n\nSuccessfully converted ") + 1, Len(value) - 1)

\* the README's example: name,age,city / John,25,NYC / Jane,30,LA
ExampleCsv ==
    <<"n", "a", "m", "e", ",", "a", "g", "e", ",", "c", "i", "t", "y", "\n",
      "J", "o", "h", "n", ",", "2", "5", ",", "N", "Y", "C", "\n", "J", "a",
      "n", "e", ",", "3", "0", ",", "L", "A">>
ExamplePerson(name, age, city) ==
    PyDict(<< <<PyStr(<<"n", "a", "m", "e">>), PyStr(name)>>,
              <<PyStr(<<"a", "g", "e">>), PyStr(age)>>,
              <<PyStr(<<"c", "i", "t", "y">>), PyStr(city)>> >>)
ExampleRecords ==
    PyList(<<ExamplePerson(<<"J", "o", "h", "n">>, <<"2", "5">>, <<"N", "Y", "C">>),
             ExamplePerson(<<"J", "a", "n", "e">>, <<"3", "0">>, <<"L", "A">>)>>)

(***************************************************************************)
(* C22: for the example input the router's report states 2 rows, lists     *)
(* the columns name, age, city in that order, states 2 converted records   *)
(* and carries the JSON array of the two objects with string values; and   *)
(* in every success report the stated row count and the stated record      *)
(* count are the number of data rows of the input.                         *)
(***************************************************************************)
C22_ExampleReport ==
    /\ (tool = "SimpleCSVAgent" /\ csv_content = ExampleCsv) =>
           /\ ~result.raised
           /\ IsSuccessReport(result.value)
           /\ RowsStated(result.value) = <<"2">>
           /\ ColumnsStated(result.value)
                  = <<"n", "a", "m", "e", ",", " ", "a", "g", "e", ",", " ", "c", "i", "t", "y">>
           /\ RecordsStated(result.value) = <<"2">>
           /\ json_loads(JsonStated(result.value)) = ExampleRecords
    /\ (RoutedTabular /\ ~result.raised /\ IsSuccessReport(result.value)) =>
           /\ RowsStated(result.value) = IntToStr(Len(DataRows(csv_content)))
           /\ RecordsStated(result.value) = IntToStr(Len(DataRows(csv_content)))

\* the router reported on the example input
C22_Witness ==
    /\ csv_content = ExampleCsv
    /\ tool = "SimpleCSVAgent"
    /\ ~result.raised
    /\ IsSuccessReport(result.value)
    /\ calls = <<"analyze_csv_simple", "csv_to_json_simple">>

\* the names the fallback registry holds
RegistryNames == {"csv_json_converter", "test_case_generator", "default"}

(***************************************************************************)
(* C23: when every source fails, in whatever way, the loader's             *)
(* construction included, and the target name is not in the fallback       *)
(* registry, the resolution returns the registry's generic default, the    *)
(* same text for every unknown name.                                       *)
(***************************************************************************)
C23_GenericDefault ==
    (Resolved /\ agent_name \notin RegistryNames /\ (env.init # "ok" \/ ~RestSucceeds)) =>
        outcome.value = GenericDefaultPrompt

\* the three sources, in the order load_prompt tries them
Sources == <<"_get_prompt_template", "_load_via_rest_api", "_load_via_aiplatform_client">>
\* what a source returns in the environment of the call
SourceValue(name) ==
    CASE name = "_get_prompt_template" -> get_prompt_template(env.m1).value
      [] name = "_load_via_rest_api" -> load_via_rest_api(env.rest).value
      [] name = "_load_via_aiplatform_client" -> load_via_aiplatform_client(env.m3).value
\* the attempts on sources, in order (the fallback lookups left out)
SourceAttempts == SelectSeq(attempts, LAMBDA a : a \in Range(Sources))

(***************************************************************************)
(* C24: within one resolution no source is attempted twice, and at most    *)
(* one attempt is a success: a successful attempt is the last attempt on   *)
(* a source and its text is the result.                                    *)
(***************************************************************************)
C24_NoRetry ==
    /\ \A i, j \in DOMAIN attempts :
           (attempts[i] = attempts[j] /\ attempts[i] \in Range(Sources)) => i = j
    /\ Cardinality({i \in DOMAIN SourceAttempts : Truthy(SourceValue(SourceAttempts[i]))}) <= 1
    /\ \A i \in DOMAIN SourceAttempts :
           Truthy(SourceValue(SourceAttempts[i])) =>
               /\ i = Len(SourceAttempts)
               /\ Resolved => outcome.value = SourceValue(SourceAttempts[i])

\* a resolution whose two attempted sources both failed, each tried once
C24_Witness ==
    /\ Resolved
    /\ ~RestSucceeds
    /\ attempts = <<"_get_prompt_template", "_load_via_rest_api", "_get_fallback_prompt">>

\* the place of a source in the order load_prompt tries them
SourceIndex(name) == CHOOSE k \in DOMAIN Sources : Sources[k] = name

(***************************************************************************)
(* C26: every resolution call eventually is RESOLVED with a result (a     *)
(* value that is truthy), and on the way there are at most one attempt per *)
(* source and one fallback lookup, the sources being attempted in their    *)
(* order without going back to an earlier one.                             *)
(***************************************************************************)
C26_EventuallyResolved ==
    /\ <>(Resolved /\ Truthy(outcome.value))
    /\ [](/\ Len(SourceAttempts) <= Len(Sources)
          /\ Len(attempts) <= Len(SourceAttempts) + 1
          /\ \A i, j \in DOMAIN SourceAttempts :
                 i < j => SourceIndex(SourceAttempts[i]) < SourceIndex(SourceAttempts[j]))

\* a resolution that skipped the first source (its import failed), tried the
\* REST source and ended with the fallback lookup
C26_Witness ==
    /\ Resolved
    /\ env.m1 = "import_error"
    /\ attempts = <<"_load_via_rest_api", "_get_fallback_prompt">>
    /\ outcome.value = get_fallback_prompt(agent_name)

\* an analysis result and a conversion result of the same input agree
AnalysisAgrees(analysis, conversion) ==
    /\ analysis.success <=> conversion.success
    /\ (analysis.success /\ conversion.success) =>
           /\ analysis.total_rows = conversion.record_count
           /\ analysis.columns = conversion.columns

(***************************************************************************)
(* C27: for every input analyze_csv succeeds exactly when csv_to_json      *)
(* succeeds, in either format, and when both succeed total_rows equals     *)
(* record_count and both report the same columns.                          *)
(***************************************************************************)
C27_AnalysisMatchesConversion ==
    /\ tool = "analyze_csv" =>
           \A fmt \in OutputFormats :
               AnalysisAgrees(result, csv_to_json_result(csv_content, fmt))
    /\ tool = "csv_to_json" => AnalysisAgrees(analyze_csv_result(csv_content), result)

\* the analysis of a header line and two data rows
C27_Witness ==
    /\ tool = "analyze_csv"
    /\ result.success
    /\ result.total_rows = 2
    /\ result.total_columns = 2

\* a result of the reduced converter against the full converter's array result
SimpleConversionAgrees(simple, full) ==
    /\ simple.success = full.success
    /\ simple.success =>
           /\ simple.record_count = full.record_count
           /\ simple.columns = full.columns
           /\ simple.json_output = full.json_output
\* a result of the reduced analyzer against the full analyzer's result
SimpleAnalysisAgrees(simple, full) ==
    /\ simple.success = full.success
    /\ simple.success =>
           /\ simple.total_rows = full.total_rows
           /\ simple.columns = full.columns

(***************************************************************************)
(* C28: for every input csv_to_json_simple returns the success flag,       *)
(* record_count, columns and payload of csv_to_json in array format, and   *)
(* analyze_csv_simple returns the success flag, total_rows and columns of  *)
(* analyze_csv.                                                            *)
(***************************************************************************)
C28_SimpleLikeFull ==
    /\ tool = "csv_to_json_simple" =>
           SimpleConversionAgrees(result, csv_to_json_result(csv_content, "array"))
    /\ tool = "analyze_csv_simple" =>
           SimpleAnalysisAgrees(result, analyze_csv_result(csv_content))

\* what a call of the router returns, or raises, when it runs alone
ReplyOf(r) ==
    IF r.raised THEN [raised |-> TRUE, exc |-> r.exc] ELSE [raised |-> FALSE, value |-> r.value]
RouterAlone(query) == ReplyOf(SimpleCSVAgent_call(query))

(***************************************************************************)
(* C25: calls of __call__ leave the agent's fields (name, model,           *)
(* description, tools) as __init__ set them, and in every interleaving of  *)
(* two concurrent calls on the same agent each call returns what it        *)
(* returns when it runs alone on its query.                                *)
(***************************************************************************)
C25_NoSharedState ==
    /\ agent = AgentFields
    /\ \A t \in DOMAIN threads :
           threads[t].pc = "returned" => threads[t].reply = RouterAlone(threads[t].query)

\* the first call has returned its success report while the second call, on
\* another query, is between its analysis and its conversion
C25_Witness ==
    /\ DOMAIN threads = Threads
    /\ threads[1].pc = "returned"
    /\ ~threads[1].reply.raised
    /\ IsSuccessReport(threads[1].reply.value)
    /\ threads[2].pc = "convert"
    /\ threads[2].query # threads[1].query

\* the two deployment methods
DeployCalls == {"deploy_with_agent_engines", "deploy_with_reasoning_engines"}
\* the positions in the log of the calls of a function
CallsOf(name) == {i \in DOMAIN steps : steps[i].call = name}

\* main's calls that the deployment waits for, in the order of the log: the
\* prompt inside check_gcloud_auth and verify_imports, whose result does not
\* stop the run, are left out
GateCalls ==
    SelectSeq(steps, LAMBDA e : /\ e.call # "verify_imports"
                                /\ ~(e.call = "input" /\ e.asked = "set_project"))
\* the steps a deployment requires, in order
Gate ==
    <<"check_gcloud_auth", "verify_bucket_access", "fix_dependencies", "setup_environment",
      "create_agent", "input">>
\* the step succeeded; for the prompt: the answer is yes or y
Passed(e) ==
    CASE e.call = "input" ->
             e.returned = "text" /\ Lower(Strip(e.text)) \in {<<"y", "e", "s">>, <<"y">>}
      [] e.call = "create_agent" -> e.returned = "root_agent"
      [] OTHER -> e.returned = "True"

(***************************************************************************)
(* C29: a deployment method is called only after the gcloud check, the     *)
(* bucket verification, the dependency fix, the environment setup and the  *)
(* agent creation have succeeded, in this order, and the user has answered *)
(* "yes" or "y" to the confirmation prompt; a step that fails, and a       *)
(* refusal, is the last step of the run, which ends with nothing deployed. *)
(***************************************************************************)
C29_DeployGated ==
    /\ \A i \in DOMAIN GateCalls :
           GateCalls[i].call \in DeployCalls =>
               /\ i > Len(Gate)
               /\ \A k \in DOMAIN Gate : GateCalls[k].call = Gate[k] /\ Passed(GateCalls[k])
    /\ \A i \in DOMAIN GateCalls :
           (GateCalls[i].call \notin DeployCalls /\ ~Passed(GateCalls[i])) =>
               /\ i = Len(GateCalls)
               /\ main_pc \in {"returned", "raised"}
               /\ deployments = <<>>
    /\ deployments # <<>> => \E i \in DOMAIN steps : steps[i].call \in DeployCalls

\* a run that deployed after the user typed " Y " at the confirmation prompt
C29_Witness ==
    /\ main_pc = "returned"
    /\ printed = "SUCCESS!"
    /\ deployments = <<"agent_engines">>
    /\ \E i \in CallsOf("input") :
           steps[i].asked = "deploy" /\ steps[i].text = <<" ", "Y", " ">>

\* the agent-engines method returned a deployed agent
AgentEnginesDeployed ==
    \E i \in CallsOf("deploy_with_agent_engines") : steps[i].returned = "remote_app"
\* main is past the fallback of lines 575-577
PastFallback ==
    main_pc = "report"
    \/ printed \in {"SUCCESS!", "All deployment methods failed - check errors above"}

(***************************************************************************)
(* C30: the reasoning-engines deployment is attempted exactly when the     *)
(* agent-engines deployment was unavailable or returned no deployed agent, *)
(* never after a successful agent-engines deployment; a run creates at     *)
(* most one deployment; success is reported exactly when one of the two    *)
(* methods returned a deployed agent.                                      *)
(***************************************************************************)
C30_FallbackOnly ==
    /\ Cardinality(CallsOf("deploy_with_agent_engines")) <= 1
    /\ Cardinality(CallsOf("deploy_with_reasoning_engines")) <= 1
    /\ CallsOf("deploy_with_agent_engines") # {} => frame.has_agent_engines
    /\ CallsOf("deploy_with_reasoning_engines") # {} =>
           /\ ~AgentEnginesDeployed
           /\ frame.has_agent_engines => CallsOf("deploy_with_agent_engines") # {}
           /\ \A i \in CallsOf("deploy_with_agent_engines") :
                  \A j \in CallsOf("deploy_with_reasoning_engines") : i < j
    /\ PastFallback => (CallsOf("deploy_with_reasoning_engines") # {} <=> ~AgentEnginesDeployed)
    /\ Len(deployments) <= 1
    /\ (PastFallback /\ main_pc = "returned") =>
           (printed = "SUCCESS!" <=>
                \E i \in DOMAIN steps :
                    steps[i].call \in DeployCalls /\ steps[i].returned = "remote_app")
    /\ printed = "SUCCESS!" => Len(deployments) = 1

\* a run whose agent-engines deployment returned nothing and whose
\* reasoning-engines deployment succeeded
C30_Witness ==
    /\ main_pc = "returned"
    /\ printed = "SUCCESS!"
    /\ deployments = <<"reasoning_engines">>
    /\ \E i \in CallsOf("deploy_with_agent_engines") : steps[i].returned = "None"

====
